---- MODULE Spec2Model ----
(***************************************************************************)
(* view-meal-plan.py: a linear Playwright script.  It starts the driver,   *)
(* launches a browser, signs in on /dev-signin with a fixed e-mail,        *)
(* navigates to /meal-plan, writes a full-page screenshot, idles for 60 s  *)
(* and closes the browser.  Every library call either returns or raises;   *)
(* a raised error is not caught by the script, it leaves the `with` block  *)
(* (whose exit stops the driver) and ends the process.                     *)
(***************************************************************************)
EXTENDS Integers, Sequences, FiniteSets, TLC

VARIABLES
    pc,          \* the statement the process executes next
    status,      \* "running", "completed" (exit 0) or "failed" (exit 1)
    run,         \* which invocation of the script this is (1, 2, ...)
    driver,      \* TRUE while the playwright driver of the `with` block runs
    browser,     \* "none", "open" or "closed"
    context,     \* TRUE while a browser context exists
    page,        \* the page the browser shows
    emailField,  \* value of the e-mail input of the page, a sequence of typed texts
    submitted,   \* e-mail carried by the sign-in request of this run
    signedIn,    \* the server has completed the sign-in for this session
    served,      \* the sign-in form the server served in this run
    timer,       \* ms left of the running wait_for_timeout, -1 when none runs
    idleElapsed, \* ms of the 60 s idle that have passed in this run
    files,       \* working directory: path -> sequence of captures written
    filesBefore, \* the working directory when this run started
    trace,       \* the library calls of this run that have returned, in order
    failedAt,    \* the call that raised in this run, "none" if none did
    stdout       \* the lines printed in this run

vars == <<pc, status, run, driver, browser, context, page, emailField,
          submitted, signedIn, served, timer, idleElapsed, files, filesBefore,
          trace, failedAt, stdout>>

----------------------------------------------------------------------------
(* Literals of the script *)

BASE_URL == "http://localhost:3456"

TEST_EMAIL == "test-e2e-b1549ea6@example.com"

SCREENSHOT_PATH == "meal-plan-view.png"

SETTLE_MS == 2000

IDLE_MS == 60000

(* Bounds of the model *)

MaxRuns == 2

TickMs == 2000

----------------------------------------------------------------------------
(* The calls of the script in program order *)
ORDER ==
    << "sync_playwright", "launch", "new_context", "new_page",
       "goto_signin", "wait_signin", "fill", "click", "settle_signin",
       "goto_meal", "wait_meal", "settle_meal", "screenshot", "idle",
       "close" >>

Steps == { ORDER[i] : i \in 1..Len(ORDER) }

BlankPage ==
    [url |-> "about:blank", load |-> "none", hasEmail |-> FALSE,
     hasButton |-> FALSE, authed |-> FALSE]

(* What the server can serve at /dev-signin: with or without the e-mail    *)
(* input and the "Sign In" button.                                         *)
SignInUrl == BASE_URL \o "/dev-signin"

MealPlanUrl == BASE_URL \o "/meal-plan"

SignInPages ==
    { [url |-> SignInUrl, load |-> "load", hasEmail |-> e,
       hasButton |-> b, authed |-> FALSE] : e \in BOOLEAN, b \in BOOLEAN }

(* Text the served form may already hold in its e-mail input *)
Prefills == { <<>>, <<"prefilled@example.com">> }

MealPlanPage(auth) ==
    [url |-> MealPlanUrl, load |-> "load", hasEmail |-> FALSE,
     hasButton |-> FALSE, authed |-> auth]

(* The image page.screenshot produces of the page as it is now *)
Capture ==
    [run |-> run, url |-> page.url, load |-> page.load, authed |-> page.authed]

(* A file an earlier invocation left behind *)
OldCapture ==
    [run |-> 0, url |-> MealPlanUrl, load |-> "networkidle",
     authed |-> TRUE]

(* No sign-in form has been served yet *)
NoForm ==
    [loaded |-> FALSE, hasEmail |-> FALSE, hasButton |-> FALSE,
     prefill |-> <<>>]

EmptyDir == [p \in {} |-> <<>>]

InTrace(s) == \E i \in 1..Len(trace) : trace[i] = s

Pos(s) == IF InTrace(s) THEN CHOOSE i \in 1..Len(trace) : trace[i] = s ELSE 0

Count(s) == Cardinality({ i \in 1..Len(trace) : trace[i] = s })

Min(a, b) == IF a < b THEN a ELSE b

----------------------------------------------------------------------------
Init ==
    /\ pc = "sync_playwright"
    /\ status = "running"
    /\ run = 1
    /\ driver = FALSE
    /\ browser = "none"
    /\ context = FALSE
    /\ page = BlankPage
    /\ emailField = <<>>
    /\ submitted = <<>>
    /\ signedIn = FALSE
    /\ served = NoForm
    /\ timer = -1
    /\ idleElapsed = 0
    /\ files \in { EmptyDir, (SCREENSHOT_PATH :> <<OldCapture>>) }
    /\ filesBefore = files
    /\ trace = <<>>
    /\ failedAt = "none"
    /\ stdout = <<>>

(* The call `step` returns and control moves to statement `next` *)
Returns(step, next) ==
    /\ pc' = next
    /\ trace' = Append(trace, step)
    /\ UNCHANGED <<status, run, failedAt, filesBefore>>

(* The statement after `step` in program order *)
NextOf(step) ==
    IF step = "close" THEN "with_exit"
    ELSE ORDER[1 + CHOOSE i \in 1..Len(ORDER) : ORDER[i] = step]

(* Variant of Raises: the error is caught and the script carries on *)
RaisesCaught ==
    /\ pc' = NextOf(pc)
    /\ failedAt' = pc
    /\ timer' = -1
    /\ UNCHANGED <<status, run, driver, browser, context, page, emailField,
                   served, submitted, signedIn, idleElapsed, files,
                   filesBefore, trace, stdout>>

(* Variant of Raises: the failed call is tried again *)
RaisesRetried ==
    /\ pc' = pc
    /\ failedAt' = pc
    /\ timer' = -1
    /\ UNCHANGED <<status, run, driver, browser, context, page, emailField,
                   served, submitted, signedIn, idleElapsed, files,
                   filesBefore, trace, stdout>>

(* The call at pc raises: nothing in the script catches it *)
Raises ==
    /\ pc' = "raised"
    /\ failedAt' = pc
    /\ timer' = -1
    /\ UNCHANGED <<status, run, driver, browser, context, page, emailField,
                   served, submitted, signedIn, idleElapsed, files,
                   filesBefore, trace, stdout>>

(* line 10: with sync_playwright() as p *)
EnterWith ==
    /\ pc = "sync_playwright" /\ status = "running"
    /\ \/ /\ Returns("sync_playwright", "launch")
          /\ driver' = TRUE
          /\ UNCHANGED <<browser, context, page, emailField, served, submitted,
                         signedIn, timer, idleElapsed, files, stdout>>
       \/ Raises

(* line 11: browser = p.chromium.launch(headless=False) *)
Launch ==
    /\ pc = "launch" /\ status = "running"
    /\ \/ /\ Returns("launch", "new_context")
          /\ browser' = "open"
          /\ UNCHANGED <<driver, context, page, emailField, served, submitted,
                         signedIn, timer, idleElapsed, files, stdout>>
       \/ Raises

(* line 12: context = browser.new_context(viewport=...) *)
NewContext ==
    /\ pc = "new_context" /\ status = "running"
    /\ \/ /\ Returns("new_context", "new_page")
          /\ context' = TRUE
          /\ signedIn' = FALSE
          /\ UNCHANGED <<driver, browser, page, emailField, served, submitted,
                         timer, idleElapsed, files, stdout>>
       \/ Raises

(* lines 13-16: page = context.new_page(); print("Signing in...") *)
NewPage ==
    /\ pc = "new_page" /\ status = "running"
    /\ \/ /\ Returns("new_page", "goto_signin")
          /\ page' = BlankPage
          /\ stdout' = Append(stdout, "Signing in...")
          /\ UNCHANGED <<driver, browser, context, emailField, served, submitted,
                         signedIn, timer, idleElapsed, files>>
       \/ Raises

(* line 17: page.goto(f"{BASE_URL}/dev-signin") *)
GotoSignIn ==
    /\ pc = "goto_signin" /\ status = "running"
    /\ \/ /\ Returns("goto_signin", "wait_signin")
          /\ \E pg \in SignInPages, pre \in Prefills :
                /\ page' = pg
                /\ emailField' = IF pg.hasEmail THEN pre ELSE <<>>
                /\ served' = [loaded |-> TRUE, hasEmail |-> pg.hasEmail,
                              hasButton |-> pg.hasButton,
                              prefill |-> IF pg.hasEmail THEN pre ELSE <<>>]
          /\ UNCHANGED <<driver, browser, context, submitted, signedIn,
                         timer, idleElapsed, files, stdout>>
       \/ Raises

(* line 18: page.wait_for_load_state("networkidle") *)
WaitSignInIdle ==
    /\ pc = "wait_signin" /\ status = "running"
    /\ \/ /\ Returns("wait_signin", "fill")
          /\ page' = [page EXCEPT !.load = "networkidle"]
          /\ UNCHANGED <<driver, browser, context, emailField, served,
                         submitted, signedIn, timer, idleElapsed, files,
                         stdout>>
       \/ Raises

(* Variant of Fill: a missing input is passed over instead of raising *)
FillLenient ==
    /\ pc = "fill" /\ status = "running"
    /\ \/ /\ Returns("fill", "click")
          /\ emailField' = IF page.hasEmail THEN <<TEST_EMAIL>> ELSE <<>>
          /\ UNCHANGED <<served, driver, browser, context, page, submitted,
                         signedIn, timer, idleElapsed, files, stdout>>
       \/ Raises

(* Variant of Fill: the text is typed after what the input already holds *)
FillTyped ==
    /\ pc = "fill" /\ status = "running"
    /\ \/ /\ page.hasEmail
          /\ Returns("fill", "click")
          /\ emailField' = emailField \o <<TEST_EMAIL>>
          /\ UNCHANGED <<served, driver, browser, context, page, submitted,
                         signedIn, timer, idleElapsed, files, stdout>>
       \/ Raises

(* line 19: page.locator('input[type="email"]').fill(TEST_EMAIL).  fill    *)
(* replaces whatever the input holds; with no such input on the page the   *)
(* locator times out and the call raises.                                  *)
Fill ==
    /\ pc = "fill" /\ status = "running"
    /\ \/ /\ page.hasEmail
          /\ Returns("fill", "click")
          /\ emailField' = <<TEST_EMAIL>>
          /\ UNCHANGED <<served, driver, browser, context, page, submitted,
                         signedIn, timer, idleElapsed, files, stdout>>
       \/ Raises

(* Variant of Click: a missing button is passed over instead of raising *)
ClickLenient ==
    /\ pc = "click" /\ status = "running"
    /\ \/ /\ Returns("click", "settle_signin")
          /\ submitted' = IF page.hasButton THEN emailField ELSE submitted
          /\ UNCHANGED <<driver, browser, context, page, emailField, served,
                         signedIn, timer, idleElapsed, files, stdout>>
       \/ Raises

(* line 20: page.locator('button:has-text("Sign In")').click().  The click *)
(* submits the form with the value of the e-mail input; with no such       *)
(* button the locator times out and the call raises.                       *)
Click ==
    /\ pc = "click" /\ status = "running"
    /\ \/ /\ page.hasButton
          /\ Returns("click", "settle_signin")
          /\ submitted' = emailField
          /\ UNCHANGED <<driver, browser, context, page, emailField, served,
                         signedIn, timer, idleElapsed, files, stdout>>
       \/ Raises

(* The backend completes the submitted sign-in, at a time of its own *)
ServerCompleteSignIn ==
    /\ browser = "open"
    /\ submitted = <<TEST_EMAIL>>
    /\ ~signedIn
    /\ signedIn' = TRUE
    /\ UNCHANGED <<pc, status, run, driver, browser, context, page,
                   emailField, served, submitted, timer, idleElapsed, files,
                   filesBefore, trace, failedAt, stdout>>

(* page.wait_for_timeout(ms) while it blocks: the timer is started, then   *)
(* time passes until nothing is left of it.                                *)
Sleeping(ms) ==
    \/ /\ timer = -1
       /\ timer' = ms
    \/ /\ timer > 0
       /\ timer' = timer - Min(timer, TickMs)

(* Variant of SettleSignInReturns: the wait also polls for the sign-in *)
SettleSignInPolled ==
    /\ timer = 0
    /\ signedIn
    /\ Returns("settle_signin", "goto_meal")
    /\ timer' = -1
    /\ stdout' = stdout \o <<"Signed in as", "Navigating to meal plan...">>
    /\ UNCHANGED <<driver, browser, context, page, emailField, served,
                   submitted, signedIn, idleElapsed, files>>

(* lines 21-25, when the 2000 ms are over: wait_for_timeout returns, then  *)
(* print(f"Signed in as ...") and print("Navigating to meal plan...").     *)
(* Nothing but the timer is read.                                          *)
SettleSignInReturns ==
    /\ timer = 0
    /\ Returns("settle_signin", "goto_meal")
    /\ timer' = -1
    /\ stdout' = stdout \o <<"Signed in as", "Navigating to meal plan...">>
    /\ UNCHANGED <<driver, browser, context, page, emailField, served,
                   submitted, signedIn, idleElapsed, files>>

(* line 21: page.wait_for_timeout(2000) *)
SettleSignIn ==
    /\ pc = "settle_signin" /\ status = "running"
    /\ \/ /\ Sleeping(SETTLE_MS)
          /\ UNCHANGED <<pc, status, run, driver, browser, context, page,
                         emailField, served, submitted, signedIn,
                         idleElapsed, files, filesBefore, trace, failedAt,
                         stdout>>
       \/ SettleSignInReturns
       \/ Raises

(* line 26: page.goto(f"{BASE_URL}/meal-plan"); the server answers for the *)
(* session as it is at that moment.                                        *)
GotoMealPlan ==
    /\ pc = "goto_meal" /\ status = "running"
    /\ \/ /\ Returns("goto_meal", "wait_meal")
          /\ page' = MealPlanPage(signedIn)
          /\ emailField' = <<>>
          /\ UNCHANGED <<served, driver, browser, context, submitted, signedIn,
                         timer, idleElapsed, files, stdout>>
       \/ Raises

(* Variant of WaitMealPlanIdle: the wait for network-idle is left out *)
WaitMealPlanIdleSkipped ==
    /\ pc = "wait_meal" /\ status = "running"
    /\ \/ /\ pc' = "settle_meal"
          /\ UNCHANGED <<status, run, driver, browser, context, page,
                         emailField, served, submitted, signedIn, timer,
                         idleElapsed, files, filesBefore, trace, failedAt,
                         stdout>>
       \/ Raises

(* line 27: page.wait_for_load_state("networkidle") *)
WaitMealPlanIdle ==
    /\ pc = "wait_meal" /\ status = "running"
    /\ \/ /\ Returns("wait_meal", "settle_meal")
          /\ page' = [page EXCEPT !.load = "networkidle"]
          /\ UNCHANGED <<driver, browser, context, emailField, served,
                         submitted, signedIn, timer, idleElapsed, files,
                         stdout>>
       \/ Raises

(* line 28: page.wait_for_timeout(2000) *)
SettleMealPlan ==
    /\ pc = "settle_meal" /\ status = "running"
    /\ \/ /\ Sleeping(SETTLE_MS)
          /\ UNCHANGED <<pc, status, run, driver, browser, context, page,
                         emailField, served, submitted, signedIn, idleElapsed,
                         files, filesBefore, trace, failedAt, stdout>>
       \/ /\ timer = 0
          /\ Returns("settle_meal", "screenshot")
          /\ timer' = -1
          /\ UNCHANGED <<driver, browser, context, page, emailField, served,
                         submitted, signedIn, idleElapsed, files, stdout>>
       \/ Raises

(* Variant of WriteFile: the image is added to what the file holds *)
WriteFileAppended(dir, path, image) ==
    [p \in DOMAIN dir \cup {path} |->
        IF p = path
        THEN (IF p \in DOMAIN dir THEN dir[p] ELSE <<>>) \o <<image>>
        ELSE dir[p]]

(* The working directory after `image` is written to `path`: the file is   *)
(* created or replaced, the other files are kept.                          *)
WriteFile(dir, path, image) ==
    [p \in DOMAIN dir \cup {path} |-> IF p = path THEN <<image>> ELSE dir[p]]

(* lines 31-35: page.screenshot(path="meal-plan-view.png", full_page=True) *)
(* and the two prints that follow it.                                      *)
Screenshot ==
    /\ pc = "screenshot" /\ status = "running"
    /\ \/ /\ Returns("screenshot", "idle")
          /\ files' = WriteFile(files, SCREENSHOT_PATH, Capture)
          /\ stdout' = stdout \o <<"Screenshot saved", "Browser open for 60 seconds">>
          /\ UNCHANGED <<driver, browser, context, page, emailField, served,
                         submitted, signedIn, timer, idleElapsed>>
       \/ Raises

(* Variant of Idle: the wait returns without the time having passed *)
IdleCutShort ==
    /\ pc = "idle" /\ status = "running"
    /\ \/ /\ Sleeping(IDLE_MS)
          /\ idleElapsed' = IF timer > 0 THEN idleElapsed + Min(timer, TickMs)
                                         ELSE idleElapsed
          /\ UNCHANGED <<pc, status, run, driver, browser, context, page,
                         emailField, served, submitted, signedIn, files,
                         filesBefore, trace, failedAt, stdout>>
       \/ /\ timer >= 0
          /\ Returns("idle", "close")
          /\ timer' = -1
          /\ UNCHANGED <<driver, browser, context, page, emailField, served,
                         submitted, signedIn, idleElapsed, files, stdout>>
       \/ Raises

(* line 36: page.wait_for_timeout(60000) *)
Idle ==
    /\ pc = "idle" /\ status = "running"
    /\ \/ /\ Sleeping(IDLE_MS)
          /\ idleElapsed' = IF timer > 0 THEN idleElapsed + Min(timer, TickMs)
                                         ELSE idleElapsed
          /\ UNCHANGED <<pc, status, run, driver, browser, context, page,
                         emailField, served, submitted, signedIn, files,
                         filesBefore, trace, failedAt, stdout>>
       \/ /\ timer = 0
          /\ Returns("idle", "close")
          /\ timer' = -1
          /\ UNCHANGED <<driver, browser, context, page, emailField, served,
                         submitted, signedIn, idleElapsed, files, stdout>>
       \/ Raises

(* line 38: browser.close() *)
Close ==
    /\ pc = "close" /\ status = "running"
    /\ \/ /\ Returns("close", "with_exit")
          /\ browser' = "closed"
          /\ context' = FALSE
          /\ UNCHANGED <<driver, page, emailField, served, submitted, signedIn,
                         timer, idleElapsed, files, stdout>>
       \/ Raises

(* Variant of ExitWith: the driver is started and stopped by hand, so an   *)
(* error skips the stop and the browser stays.                             *)
ExitWithout ==
    /\ pc \in {"with_exit", "raised"} /\ status = "running"
    /\ pc' = "exited"
    /\ status' = IF pc = "raised" THEN "failed" ELSE "completed"
    /\ driver' = IF pc = "raised" THEN driver ELSE FALSE
    /\ browser' = browser
    /\ context' = context
    /\ UNCHANGED <<run, page, emailField, served, submitted, signedIn, timer,
                   idleElapsed, files, filesBefore, trace, failedAt, stdout>>

(* line 10, leaving the `with` block, by falling off its end or by the     *)
(* raised error passing through it: the driver is stopped, and a browser   *)
(* it still runs goes down with it.  Then the process ends, with status 0  *)
(* or, for the uncaught error, 1.                                          *)
ExitWith ==
    /\ pc \in {"with_exit", "raised"} /\ status = "running"
    /\ pc' = "exited"
    /\ status' = IF pc = "raised" THEN "failed" ELSE "completed"
    /\ driver' = FALSE
    /\ browser' = IF browser = "open" THEN "closed" ELSE browser
    /\ context' = FALSE
    /\ UNCHANGED <<run, page, emailField, served, submitted, signedIn, timer,
                   idleElapsed, files, filesBefore, trace, failedAt, stdout>>

(* The script is invoked again, in the directory the last run left *)
Rerun ==
    /\ status # "running"
    /\ run < MaxRuns
    /\ run' = run + 1
    /\ pc' = "sync_playwright"
    /\ status' = "running"
    /\ driver' = FALSE
    /\ browser' = "none"
    /\ context' = FALSE
    /\ page' = BlankPage
    /\ emailField' = <<>>
    /\ submitted' = <<>>
    /\ signedIn' = FALSE
    /\ served' = NoForm
    /\ timer' = -1
    /\ idleElapsed' = 0
    /\ filesBefore' = files
    /\ trace' = <<>>
    /\ failedAt' = "none"
    /\ stdout' = <<>>
    /\ UNCHANGED files

(* The statements of the script, one after the other *)
Script ==
    \/ EnterWith
    \/ Launch
    \/ NewContext
    \/ NewPage
    \/ GotoSignIn
    \/ WaitSignInIdle
    \/ Fill
    \/ Click
    \/ SettleSignIn
    \/ GotoMealPlan
    \/ WaitMealPlanIdle
    \/ SettleMealPlan
    \/ Screenshot
    \/ Idle
    \/ Close
    \/ ExitWith

Next ==
    \/ Script
    \/ ServerCompleteSignIn
    \/ Rerun

Spec == Init /\ [][Next]_vars

(* Every library call returns or raises within its timeout, and the        *)
(* single-threaded process then executes its next statement.               *)
FairSpec == Spec /\ WF_vars(Script)

TypeOK ==
    /\ pc \in Steps \cup {"with_exit", "raised", "exited"}
    /\ status \in {"running", "completed", "failed"}
    /\ run \in 1..MaxRuns
    /\ driver \in BOOLEAN /\ context \in BOOLEAN /\ signedIn \in BOOLEAN
    /\ browser \in {"none", "open", "closed"}
    /\ timer \in -1..IDLE_MS
    /\ idleElapsed \in 0..IDLE_MS
    /\ failedAt \in Steps \cup {"none"}
    /\ DOMAIN files \subseteq {SCREENSHOT_PATH}

----------------------------------------------------------------------------
(* Properties *)

(* The call `step` has been started in this run: it returned or raised *)
Begun(step) == InTrace(step) \/ failedAt = step

(* The position of statement `step` in the script, past its end for the   *)
(* positions after the last call.                                          *)
Idx(step) ==
    IF step \in Steps THEN CHOOSE i \in 1..Len(ORDER) : ORDER[i] = step
    ELSE Len(ORDER) + 1

(* The captures this run has written to the screenshot path *)
Written ==
    IF SCREENSHOT_PATH \in DOMAIN files
    THEN { files[SCREENSHOT_PATH][i] : i \in 1..Len(files[SCREENSHOT_PATH]) }
    ELSE {}

(* C1: the sign-in navigation and its network-idle wait have returned      *)
(* before the meal-plan navigation begins, and the meal-plan navigation    *)
(* and its network-idle wait have returned before the screenshot is taken: *)
(* no capture is made of a page that has not reached network-idle.         *)
C1_Ordering ==
    /\ (pc = "goto_meal" \/ Begun("goto_meal"))
          => /\ 0 < Pos("goto_signin")
             /\ Pos("goto_signin") < Pos("wait_signin")
             /\ InTrace("goto_meal") => Pos("wait_signin") < Pos("goto_meal")
    /\ (pc = "screenshot" \/ Begun("screenshot"))
          => /\ 0 < Pos("wait_signin")
             /\ Pos("wait_signin") < Pos("goto_meal")
             /\ Pos("goto_meal") < Pos("wait_meal")
             /\ InTrace("screenshot") => Pos("wait_meal") < Pos("screenshot")
    /\ \A c \in Written :
          c.run = run => c.url = MealPlanUrl /\ c.load = "networkidle"

C1_Witness ==
    /\ status = "completed"
    /\ InTrace("screenshot")
    /\ \E c \in Written : c.run = run

(* C2: when the served sign-in page lacks the e-mail input or the button   *)
(* (fill or click raises), the run ends failed, with a non-zero status,    *)
(* and its screenshot step is never executed.                              *)
C2_MissingElementFatal ==
    /\ ((served.loaded /\ ~(served.hasEmail /\ served.hasButton))
            \/ failedAt \in {"fill", "click"})
          => /\ ~Begun("screenshot")
             /\ pc # "screenshot"
             /\ status # "completed"
             /\ \A c \in Written : c.run # run
    /\ (status # "running" /\ InTrace("wait_signin")
            /\ ~(served.hasEmail /\ served.hasButton))
          => /\ status = "failed"
             /\ ~served.hasEmail => failedAt = "fill"
             /\ failedAt \in {"fill", "click"}

C2_Witness ==
    /\ status = "failed"
    /\ failedAt = "fill"
    /\ served.loaded /\ ~served.hasEmail

(* C3: when the served sign-in page lacks the "Sign In" button, the run    *)
(* ends with an error before the meal-plan navigation begins and the       *)
(* screenshot file is as it was before the run: absent, or with the        *)
(* content an earlier run left.                                            *)
C3_NoButtonNoNavigation ==
    (served.loaded /\ ~served.hasButton)
        => /\ Idx(pc) <= Idx("click") \/ pc \in {"raised", "exited"}
           /\ ~Begun("goto_meal")
           /\ files = filesBefore
           /\ status # "completed"
           /\ status = "failed" => Idx(failedAt) <= Idx("click")

C3_Witness ==
    /\ status = "failed"
    /\ failedAt = "click"
    /\ served.loaded /\ served.hasEmail /\ ~served.hasButton
    /\ files = (SCREENSHOT_PATH :> <<OldCapture>>)

(* C4: the calls started in a run are a prefix of the script's calls in    *)
(* program order, each at most once; a call that raised is the last one    *)
(* started, after it the process only leaves, and it ends failed.          *)
C4_FailFastLinear ==
    LET attempted == IF failedAt = "none" THEN trace
                     ELSE Append(trace, failedAt)
    IN  /\ Len(attempted) <= Len(ORDER)
        /\ \A i \in 1..Len(attempted) : attempted[i] = ORDER[i]
        /\ \A s \in Steps : Count(s) <= 1
        /\ failedAt # "none" => pc \in {"raised", "exited"}
        /\ (failedAt # "none" /\ status # "running") => status = "failed"
        /\ failedAt = "none" /\ pc \in Steps => Len(trace) = Idx(pc) - 1

C4_Witness ==
    /\ status = "failed"
    /\ failedAt = "wait_meal"
    /\ Len(trace) = Idx("wait_meal") - 1

(* C5: once the process has ended after a successful launch, by running   *)
(* to the end or by an error, the browser is closed and neither its        *)
(* context nor the driver is left.                                         *)
C5_BrowserReleased ==
    (status # "running" /\ InTrace("launch"))
        => browser = "closed" /\ ~context /\ ~driver

C5_Witness ==
    /\ status = "failed"
    /\ InTrace("launch")
    /\ ~InTrace("close")
    /\ browser = "closed"

(* C6: after a successful run there is exactly one file, at the fixed      *)
(* path, and it holds the capture of that run alone, however many runs     *)
(* came before; the script never has more than that one file.              *)
C6_OneFileOverwritten ==
    /\ DOMAIN files \subseteq {SCREENSHOT_PATH}
    /\ status = "completed"
          => /\ DOMAIN files = {SCREENSHOT_PATH}
             /\ Len(files[SCREENSHOT_PATH]) = 1
             /\ files[SCREENSHOT_PATH][1].run = run

C6_Witness ==
    /\ status = "completed"
    /\ run = 2
    /\ SCREENSHOT_PATH \in DOMAIN filesBefore
    /\ filesBefore[SCREENSHOT_PATH][1].run = 1
    /\ files[SCREENSHOT_PATH][1].run = 2

(* C7: once fill has returned the e-mail input holds exactly TEST_EMAIL,   *)
(* whatever the served form held before, and the sign-in request carries   *)
(* exactly that value.                                                     *)
C7_FixedEmail ==
    /\ (InTrace("fill") /\ ~InTrace("goto_meal"))
          => emailField = <<TEST_EMAIL>>
    /\ InTrace("click") => submitted = <<TEST_EMAIL>>
    /\ submitted \in {<<>>, <<TEST_EMAIL>>}

C7_Witness ==
    /\ InTrace("click")
    /\ served.prefill # <<>>
    /\ submitted = <<TEST_EMAIL>>

(* C8: on a run in which nothing raised, the browser is closed only after  *)
(* the screenshot was written and the whole 60,000 ms idle has passed;     *)
(* while the idle is pending the browser is open and the screenshot is     *)
(* already on disk.                                                        *)
C8_OpenThroughIdle ==
    /\ (browser = "closed" /\ failedAt = "none")
          => /\ idleElapsed = IDLE_MS
             /\ 0 < Pos("screenshot")
             /\ Pos("screenshot") < Pos("idle")
             /\ Pos("idle") < Pos("close")
    /\ (pc = "idle" \/ idleElapsed > 0)
          => /\ InTrace("screenshot")
             /\ \E c \in Written : c.run = run
    /\ pc = "idle" => browser = "open"

C8_Witness ==
    /\ status = "completed"
    /\ browser = "closed"
    /\ idleElapsed = IDLE_MS

(* C9: when the 2000 ms after the click are over the script goes on to the *)
(* meal-plan navigation whether or not the server has completed the        *)
(* sign-in; the witness is a run that navigated, took the screenshot and   *)
(* printed "Signed in as" with the sign-in never completed.                *)
C9_SettleIgnoresSignIn ==
    (pc = "settle_signin" /\ status = "running" /\ timer = 0)
        => ENABLED SettleSignInReturns

C9_Witness ==
    /\ status = "completed"
    /\ ~signedIn
    /\ InTrace("goto_meal")
    /\ \E i \in 1..Len(stdout) : stdout[i] = "Signed in as"
    /\ \E c \in Written : c.run = run /\ ~c.authed

(* C10: every run ends, and it ends in one of two ways: all calls of the   *)
(* script returned, the browser is closed and the status is zero, or a     *)
(* call raised and the status is non-zero.                                 *)
RanToCompletion ==
    /\ status = "completed"
    /\ pc = "exited"
    /\ trace = ORDER
    /\ failedAt = "none"
    /\ browser = "closed"

Failed ==
    /\ status = "failed"
    /\ pc = "exited"
    /\ failedAt \in Steps
    /\ Len(trace) < Len(ORDER)

C10_Terminates ==
    /\ [](status = "running" => <>(status # "running"))
    /\ [](status # "running" => (RanToCompletion \/ Failed))

C10_Witness ==
    /\ RanToCompletion
    /\ run = 1
    /\ timer = -1

====
